---- MODULE Spec2Model ----
(***************************************************************************)
(* tools/PSScriptAnalyzer/entry_point.py: the pre-commit entry point that  *)
(* runs Invoke-PSSAPreCommitHook.ps1 on Windows (os.name == "nt") and      *)
(* exits 0 everywhere else.                                                *)
(*                                                                         *)
(* The model holds the invocations of the script on one host (Runs). Each  *)
(* invocation is its own interpreter process with its own sys.argv; the    *)
(* host's os.name and the interpreter build are shared.                    *)
(*                                                                         *)
(* Exit codes on "nt" are DWORDs (0 .. 2^32-1), which do not fit TLC's     *)
(* integers, so a code is the pair <<high 16 bits, low 16 bits>>.          *)
(***************************************************************************)
EXTENDS Integers, Sequences, FiniteSets, TLC

VARIABLES
    os_name,    \* os.name of the host
    sysexit,    \* how the interpreter build converts SystemExit.code to a C int
    argv,       \* argv[r]: sys.argv[1:] of invocation r
    pc,         \* pc[r]: where invocation r is in entry_point.py
    command,    \* command[r]: the list built at lines 13-15
    calls,      \* calls[r]: the commands subprocess.run was called with
    child,      \* child[r]: "none", "running" or "terminated"
    childcode,  \* childcode[r]: the exit code the child terminated with
    result,     \* result[r]: result.returncode (line 16)
    exitarg,    \* exitarg[r]: the argument of sys.exit (SystemExit.code)
    status,     \* status[r]: the exit status of the interpreter process
    visited     \* visited[r]: the states Detect / Delegate / Skip entered, in order

vars == <<os_name, sysexit, argv, pc, command, calls, child, childcode,
          result, exitarg, status, visited>>

----------------------------------------------------------------------------
(* Bounds and input domains *)

MaxArgs == 2

Runs == {"r1", "r2"}

ScriptPath == "./tools/PSScriptAnalyzer/Invoke-PSSAPreCommitHook.ps1"

\* Argument strings: a flag-like string and the script path itself.
Tokens == {"--fix", ScriptPath}

ArgLists == UNION {[1..n -> Tokens] : n \in 0..MaxArgs}

\* The values os.name takes.
OsNames == {"nt", "posix", "java"}

Half == 2^16

DWord(hi, lo) == <<hi, lo>>

IsDWord(c) == c \in (0..(Half - 1)) \X (0..(Half - 1))

NoCode == <<>>

\* 0, 1, 2, 127, 0x7FFFFFFF, 0x80000000, 0xC0000005 (access violation), 0xFFFFFFFF
ChildCodes ==
    {DWord(0, 0), DWord(0, 1), DWord(0, 2), DWord(0, 127),
     DWord(32767, 65535), DWord(32768, 0), DWord(49152, 5), DWord(65535, 65535)}

\* The builds of the interpreter: SystemExit.code is read with PyLong_AsLong
\* (a 32-bit C long on "nt") or with PyLong_AsLongLong.
SysExitBuilds == {"AsLong", "AsLongLong"}

----------------------------------------------------------------------------
(* The program *)

\* Mutant: the test is os.name != "posix".
IsDesignatedNotPosix(name) == name # "posix"

\* line 11: os.name == "nt"
IsDesignated(name) == name = "nt"

\* Mutant: command.extend(sys.argv), which forwards sys.argv[0] as well.
CommandWithArgv0(args) == <<ScriptPath, "entry_point.py">> \o args

\* lines 13-15: command = [script]; command.extend(sys.argv[1:])
Command(args) == <<ScriptPath>> \o args

\* Mutant: sys.exit(-result.returncode).
ExitArgNegated(rc) == <<0 - rc[1], 0 - rc[2]>>

\* Mutant: sys.exit(result.returncode & 0xFF).
ExitArgLowByte(rc) == DWord(0, rc[2] % 256)

\* line 17: sys.exit(result.returncode)
ExitArg(rc) == rc

\* line 19: sys.exit(0)
SkipCode == 0

\* The C long of "nt" is 32 bits: LONG_MAX = 0x7FFFFFFF.
FitsCLong(c) == c[1] < Half \div 2

\* sys.exit(code) with an int: the interpreter converts the code to a C int and
\* ends the process with it. PyLong_AsLong overflows above LONG_MAX and the
\* exit code is then -1 (0xFFFFFFFF); PyLong_AsLongLong holds every DWORD and
\* the truncation to int keeps its 32 bits.
ParseExitCode(build, code) ==
    IF build = "AsLong" /\ ~FitsCLong(code)
    THEN DWord(Half - 1, Half - 1)
    ELSE code

\* An exception that nothing catches: traceback, exit status 1.
UncaughtStatus == DWord(0, 1)

\* The state of the spec's state machine a program position belongs to.
StateOf(p, prev) ==
    CASE p = "detect" -> "Detect"
      [] p \in {"build", "launch", "wait", "exit"} -> "Delegate"
      [] p = "skip" -> "Skip"
      [] OTHER -> prev

Last(s) == s[Len(s)]

\* visited' from pc': a state is recorded when it is entered.
Log(r) ==
    visited' = [visited EXCEPT ![r] =
                  IF StateOf(pc'[r], Last(@)) = Last(@)
                  THEN @
                  ELSE Append(@, StateOf(pc'[r], Last(@)))]

Init ==
    /\ os_name \in OsNames
    /\ sysexit \in SysExitBuilds
    /\ argv \in [Runs -> ArgLists]
    /\ pc = [r \in Runs |-> "detect"]
    /\ command = [r \in Runs |-> <<>>]
    /\ calls = [r \in Runs |-> <<>>]
    /\ child = [r \in Runs |-> "none"]
    /\ childcode = [r \in Runs |-> NoCode]
    /\ result = [r \in Runs |-> NoCode]
    /\ exitarg = [r \in Runs |-> NoCode]
    /\ status = [r \in Runs |-> NoCode]
    /\ visited = [r \in Runs |-> <<"Detect">>]

\* Mutant: if os.name == "nt" and sys.argv[1:].
DetectReadsArgs(r) ==
    /\ pc[r] = "detect"
    /\ pc' = [pc EXCEPT ![r] =
                IF os_name = "nt" /\ argv[r] # <<>> THEN "build" ELSE "skip"]
    /\ Log(r)
    /\ UNCHANGED <<os_name, sysexit, argv, command, calls, child, childcode,
                   result, exitarg, status>>

\* line 11: the platform test
Detect(r) ==
    /\ pc[r] = "detect"
    /\ pc' = [pc EXCEPT ![r] = IF IsDesignated(os_name) THEN "build" ELSE "skip"]
    /\ Log(r)
    /\ UNCHANGED <<os_name, sysexit, argv, command, calls, child, childcode,
                   result, exitarg, status>>

\* lines 13-15: build the command
Build(r) ==
    /\ pc[r] = "build"
    /\ command' = [command EXCEPT ![r] = Command(argv[r])]
    /\ pc' = [pc EXCEPT ![r] = "launch"]
    /\ Log(r)
    /\ UNCHANGED <<os_name, sysexit, argv, calls, child, childcode,
                   result, exitarg, status>>

\* line 16: subprocess.run(command) starts the child and waits for it
LaunchOK(r) ==
    /\ pc[r] = "launch"
    /\ calls' = [calls EXCEPT ![r] = Append(@, command[r])]
    /\ child' = [child EXCEPT ![r] = "running"]
    /\ pc' = [pc EXCEPT ![r] = "wait"]
    /\ Log(r)
    /\ UNCHANGED <<os_name, sysexit, argv, command, childcode,
                   result, exitarg, status>>

\* Mutant: the OSError is caught and the script ends with sys.exit(0).
LaunchFailCaught(r) ==
    /\ pc[r] = "launch"
    /\ calls' = [calls EXCEPT ![r] = Append(@, command[r])]
    /\ exitarg' = [exitarg EXCEPT ![r] = DWord(0, 0)]
    /\ status' = [status EXCEPT ![r] = DWord(0, 0)]
    /\ pc' = [pc EXCEPT ![r] = "exited"]
    /\ Log(r)
    /\ UNCHANGED <<os_name, sysexit, argv, command, child, childcode, result>>

\* line 16: subprocess.run(command) raises (OSError: the script cannot be
\* started); nothing catches it and the interpreter ends with a traceback
LaunchFail(r) ==
    /\ pc[r] = "launch"
    /\ calls' = [calls EXCEPT ![r] = Append(@, command[r])]
    /\ status' = [status EXCEPT ![r] = UncaughtStatus]
    /\ pc' = [pc EXCEPT ![r] = "raised"]
    /\ Log(r)
    /\ UNCHANGED <<os_name, sysexit, argv, command, child, childcode,
                   result, exitarg>>

\* the child terminates with some exit code (it may also never do so)
ChildExit(r) ==
    /\ child[r] = "running"
    /\ \E c \in ChildCodes : childcode' = [childcode EXCEPT ![r] = c]
    /\ child' = [child EXCEPT ![r] = "terminated"]
    /\ UNCHANGED <<os_name, sysexit, argv, pc, command, calls,
                   result, exitarg, status, visited>>

\* Mutant: subprocess.run(command, timeout=...) raises TimeoutExpired while
\* the child is still running.
WaitReturnTimeout(r) ==
    /\ pc[r] = "wait"
    /\ \/ /\ child[r] = "terminated"
          /\ result' = [result EXCEPT ![r] = childcode[r]]
          /\ pc' = [pc EXCEPT ![r] = "exit"]
          /\ UNCHANGED status
       \/ /\ child[r] = "running"
          /\ status' = [status EXCEPT ![r] = UncaughtStatus]
          /\ pc' = [pc EXCEPT ![r] = "raised"]
          /\ UNCHANGED result
    /\ Log(r)
    /\ UNCHANGED <<os_name, sysexit, argv, command, calls, child, childcode,
                   exitarg>>

\* line 16: subprocess.run returns once the child has terminated
WaitReturn(r) ==
    /\ pc[r] = "wait"
    /\ child[r] = "terminated"
    /\ result' = [result EXCEPT ![r] = childcode[r]]
    /\ pc' = [pc EXCEPT ![r] = "exit"]
    /\ Log(r)
    /\ UNCHANGED <<os_name, sysexit, argv, command, calls, child, childcode,
                   exitarg, status>>

\* Mutant: a non-zero return code starts the script over.
ExitDelegateRetry(r) ==
    /\ pc[r] = "exit"
    /\ IF result[r] = DWord(0, 0)
       THEN /\ exitarg' = [exitarg EXCEPT ![r] = ExitArg(result[r])]
            /\ status' = [status EXCEPT ![r] = ParseExitCode(sysexit, exitarg'[r])]
            /\ pc' = [pc EXCEPT ![r] = "exited"]
            /\ UNCHANGED child
       ELSE /\ pc' = [pc EXCEPT ![r] = "detect"]
            /\ child' = [child EXCEPT ![r] = "none"]
            /\ UNCHANGED <<exitarg, status>>
    /\ Log(r)
    /\ UNCHANGED <<os_name, sysexit, argv, command, calls, childcode, result>>

\* line 17: sys.exit(result.returncode)
ExitDelegate(r) ==
    /\ pc[r] = "exit"
    /\ exitarg' = [exitarg EXCEPT ![r] = ExitArg(result[r])]
    /\ status' = [status EXCEPT ![r] = ParseExitCode(sysexit, exitarg'[r])]
    /\ pc' = [pc EXCEPT ![r] = "exited"]
    /\ Log(r)
    /\ UNCHANGED <<os_name, sysexit, argv, command, calls, child, childcode,
                   result>>

\* line 19: sys.exit(0)
ExitSkip(r) ==
    /\ pc[r] = "skip"
    /\ exitarg' = [exitarg EXCEPT ![r] = DWord(0, SkipCode)]
    /\ status' = [status EXCEPT ![r] = ParseExitCode(sysexit, exitarg'[r])]
    /\ pc' = [pc EXCEPT ![r] = "exited"]
    /\ Log(r)
    /\ UNCHANGED <<os_name, sysexit, argv, command, calls, child, childcode,
                   result>>

Next ==
    \E r \in Runs :
        \/ Detect(r)
        \/ Build(r)
        \/ LaunchOK(r)
        \/ LaunchFail(r)
        \/ ChildExit(r)
        \/ WaitReturn(r)
        \/ ExitDelegate(r)
        \/ ExitSkip(r)

Spec == Init /\ [][Next]_vars

\* The interpreter runs the script's statements one after the other, so every
\* step of the script that can be taken is taken. The child is another
\* program: nothing makes it terminate.
Fairness ==
    \A r \in Runs :
        /\ WF_vars(Detect(r))
        /\ WF_vars(Build(r))
        /\ WF_vars(LaunchOK(r) \/ LaunchFail(r))
        /\ WF_vars(WaitReturn(r))
        /\ WF_vars(ExitDelegate(r))
        /\ WF_vars(ExitSkip(r))

FairSpec == Init /\ [][Next]_vars /\ Fairness

TypeOK ==
    /\ os_name \in OsNames
    /\ sysexit \in SysExitBuilds
    /\ \A r \in Runs :
        /\ argv[r] \in ArgLists
        /\ pc[r] \in {"detect", "build", "launch", "wait", "exit", "skip",
                      "exited", "raised"}
        /\ child[r] \in {"none", "running", "terminated"}

----------------------------------------------------------------------------
(* Properties *)

Done(r) == pc[r] \in {"exited", "raised"}

Zero == DWord(0, 0)

\* The exit codes valid on the host: a DWORD on "nt", 0 .. 255 elsewhere.
ValidExit(c) ==
    IF os_name = "nt" THEN IsDWord(c) ELSE IsDWord(c) /\ c[1] = 0 /\ c[2] < 256

\* C1: on "nt", when the child terminates with exit code c, the Dispatcher
\* exits with exactly c, for every code the child can return.
C1_ExitEqualsChildCode ==
    \A r \in Runs :
        (os_name = "nt" /\ pc[r] = "exited") => status[r] = childcode[r]

\* C2: on "nt", for every argument list, subprocess.run is called exactly once
\* in the run, with the script path followed by exactly the arguments, in order.
C2_LaunchedOnceWithArgs ==
    \A r \in Runs :
        os_name = "nt" =>
            /\ Len(calls[r]) <= 1
            /\ pc[r] \in {"wait", "exit", "exited", "raised"} =>
                /\ Len(calls[r]) = 1
                /\ Len(calls[r][1]) = 1 + Len(argv[r])
                /\ calls[r][1][1] = ScriptPath
                /\ \A i \in 1..Len(argv[r]) : calls[r][1][i + 1] = argv[r][i]

C2_Witness ==
    \E r \in Runs :
        /\ os_name = "nt"
        /\ pc[r] = "exited"
        /\ Len(argv[r]) >= 2
        /\ argv[r][1] # argv[r][2]

\* C3: off "nt", for every argument list, the Dispatcher exits with code 0 and
\* subprocess.run is never called.
C3_SkipExitsZeroNoLaunch ==
    \A r \in Runs :
        os_name # "nt" =>
            /\ calls[r] = <<>>
            /\ child[r] = "none"
            /\ pc[r] \in {"detect", "skip", "exited"}
            /\ pc[r] = "exited" => (exitarg[r] = Zero /\ status[r] = Zero)

C3_Witness ==
    \E r \in Runs :
        /\ os_name # "nt"
        /\ pc[r] = "exited"
        /\ Len(argv[r]) > 0

\* A call of subprocess.run that started no child: the launch failed.
LaunchFailed(r) == Len(calls[r]) > 0 /\ child[r] = "none"

\* C4: on "nt", a launch failure is not caught: the run ends in a failure
\* (never a normal exit, never status 0) and the launch is not retried.
C4_LaunchFailureSurfaces ==
    \A r \in Runs :
        LaunchFailed(r) =>
            /\ os_name = "nt"
            /\ pc[r] = "raised"
            /\ exitarg[r] = NoCode
            /\ status[r] # NoCode /\ status[r] # Zero
            /\ Len(calls[r]) = 1

C4_Witness ==
    \E r \in Runs : LaunchFailed(r) /\ pc[r] = "raised" /\ Len(argv[r]) > 0

\* C5: the Dispatcher's exit code, once set, is in the host's valid exit-code
\* range, also when it is the child's return code passed through.
C5_ExitCodeInRange ==
    \A r \in Runs :
        /\ exitarg[r] # NoCode => ValidExit(exitarg[r])
        /\ status[r] # NoCode => ValidExit(status[r])
        /\ Done(r) => status[r] # NoCode

C5_Witness ==
    \E r \in Runs :
        /\ os_name = "nt"
        /\ pc[r] = "exited"
        /\ childcode[r] = DWord(Half - 1, Half - 1)
        /\ exitarg[r] = childcode[r]

\* C6: every run is Detect -> Delegate (on "nt") or Detect -> Skip (elsewhere):
\* no state is entered twice, a finished run has entered exactly two states,
\* and there is no second launch, whatever the child's exit code.
C6_StateMachine ==
    \A r \in Runs :
        /\ visited[r] \in {<<"Detect">>, <<"Detect", "Delegate">>, <<"Detect", "Skip">>}
        /\ Len(visited[r]) = 2 => (visited[r][2] = "Delegate" <=> os_name = "nt")
        /\ pc[r] = "detect" <=> visited[r] = <<"Detect">>
        /\ Len(calls[r]) <= 1

C6_Witness ==
    \E r \in Runs :
        /\ pc[r] = "exited"
        /\ visited[r] = <<"Detect", "Delegate">>
        /\ childcode[r] # NoCode /\ childcode[r] # Zero

\* C7: on "nt" the Dispatcher never ends while the child is running, and it
\* ends if and only if the child terminates or the launch fails; elsewhere it
\* always ends.
C7_BlocksOnChild ==
    /\ [](\A r \in Runs : Done(r) => child[r] # "running")
    /\ \A r \in Runs :
        /\ (os_name = "nt") =>
            /\ (<>Done(r)) => <>(child[r] = "terminated" \/ LaunchFailed(r))
            /\ (<>(child[r] = "terminated" \/ LaunchFailed(r))) => <>Done(r)
        /\ (os_name # "nt") => <>Done(r)

C7_Witness ==
    \E r \in Runs :
        /\ os_name = "nt"
        /\ pc[r] = "exited"
        /\ child[r] = "terminated"

\* C8: two runs on the same host whose children end the same way take the same
\* branch, launch as often and exit with the same code whatever their argument
\* lists are; the arguments are only the tail of the launched command.
C8_ArgumentsNotInterpreted ==
    \A a, b \in Runs :
        (Done(a) /\ Done(b) /\ child[a] = child[b] /\ childcode[a] = childcode[b]) =>
            /\ visited[a] = visited[b]
            /\ pc[a] = pc[b]
            /\ Len(calls[a]) = Len(calls[b])
            /\ exitarg[a] = exitarg[b]
            /\ status[a] = status[b]
            /\ \A i \in 1..Len(calls[a]) : calls[a][i][1] = calls[b][i][1]

C8_Witness ==
    \E a, b \in Runs :
        /\ os_name = "nt"
        /\ pc[a] = "exited" /\ pc[b] = "exited"
        /\ childcode[a] = childcode[b]
        /\ argv[a] = <<>>
        /\ Len(argv[b]) = 2 /\ argv[b][1] = ScriptPath /\ argv[b][2] = "--fix"

\* C9: on "nt" a failure is never masked as success: a run that ends with
\* status 0 launched the child exactly once, and the child terminated with 0.
C9_ZeroOnlyFromZeroChild ==
    \A r \in Runs :
        (os_name = "nt" /\ Done(r) /\ status[r] = Zero) =>
            /\ pc[r] = "exited"
            /\ Len(calls[r]) = 1
            /\ child[r] = "terminated"
            /\ childcode[r] = Zero

C9_Witness ==
    \E r \in Runs :
        /\ os_name = "nt"
        /\ pc[r] = "exited"
        /\ status[r] = Zero
        /\ childcode[r] = Zero

====
